---- MODULE Spec2Model ----
(***************************************************************************)
(* Upload analysis pipeline of the Insightflow backend.                    *)
(*                                                                         *)
(* The API layer (routers/dashboard.py) saves an uploaded file, inserts a  *)
(* row into the table user_uploads and enqueues a task; the worker         *)
(* (worker.py, process_uploaded_file) reads the file, analyses it, writes  *)
(* its status into the table file_uploads and its result into the table   *)
(* processed_uploads, and removes the temporary file.                      *)
(***************************************************************************)
EXTENDS Integers, Sequences, FiniteSets, TLC

(***************************************************************************)
(* Bounds of the model.                                                    *)
(***************************************************************************)
MaxJobs == 1
MaxInv == 2
MaxFaults == 2

\* The job ids of the tables: those of the MaxJobs uploads of Spec, and one
\* more for the specification of two jobs side by side (SpecPair).
JobIds == 1..(MaxJobs + 1)
InvIds == 1..MaxInv
Users == {"u1", "u2"}

(***************************************************************************)
(* Optional values: Python's None is the empty tuple, a value v is <<v>>.  *)
(***************************************************************************)
None == <<>>
Some(v) == <<v>>

(***************************************************************************)
(* Program constants of routers/dashboard.py.                              *)
(***************************************************************************)
MAX_FILE_SIZE == 50 * 1024 * 1024
ALLOWED_CONTENT_TYPES ==
  {"text/csv", "application/vnd.ms-excel",
   "application/vnd.openxmlformats-officedocument.spreadsheetml.sheet"}
ALLOWED_EXTENSIONS == {".csv", ".xls", ".xlsx"}

(***************************************************************************)
(* Uploaded files.  A file is what the client sends: a filename extension, *)
(* the content type header, the MIME type libmagic detects in its bytes,   *)
(* its size in bytes, and what pandas makes of                             *)
(* its bytes: parse = "ok" with the columns (name, dtype, and for an       *)
(* object column whether every cell is a str) and the rows, or             *)
(* parse = "garbled" when the reader raises.  Cells are integer codes;     *)
(* the numeric cells of the samples are even, so that the mean of two of   *)
(* them is an integer.                                                     *)
(***************************************************************************)
\* A missing cell (NaN), and the literal 'Unknown' of line 174.
Missing == -1
Unknown == -2

Col(n, d, s) == [name |-> n, dtype |-> d, allstr |-> s]

DupCsv ==
  [ext |-> ".csv", magic |-> "text/csv",
   content_type |-> "text/csv", size |-> 40, parse |-> "ok",
   cols |-> <<Col("col1", "object", TRUE), Col("col2", "object", TRUE)>>,
   rows |-> << <<1, 2>>, <<3, 4>>, <<1, 2>> >>]

SeriesXlsx ==
  [ext |-> ".xlsx",
   magic |-> "application/vnd.openxmlformats-officedocument.spreadsheetml.sheet",
   content_type |-> "application/vnd.openxmlformats-officedocument.spreadsheetml.sheet",
   size |-> 5000, parse |-> "ok",
   cols |-> <<Col("date", "datetime", FALSE), Col("sales", "numeric", FALSE)>>,
   rows |-> << <<2, 10>>, <<1, 20>> >>]

MixedXlsx ==
  [ext |-> ".xlsx",
   magic |-> "application/vnd.openxmlformats-officedocument.spreadsheetml.sheet",
   content_type |-> "application/vnd.openxmlformats-officedocument.spreadsheetml.sheet",
   size |-> 5000, parse |-> "ok",
   cols |-> <<Col("note", "object", FALSE), Col("qty", "numeric", FALSE)>>,
   rows |-> << <<1, 5>>, <<2, 6>> >>]

EmptyCsv ==
  [ext |-> ".csv", magic |-> "text/csv",
   content_type |-> "text/csv", size |-> 10, parse |-> "ok",
   cols |-> <<Col("col1", "object", TRUE)>>,
   rows |-> << >>]

GarbledXls ==
  [ext |-> ".xls", magic |-> "application/octet-stream",
   content_type |-> "application/vnd.ms-excel", size |-> 30,
   parse |-> "garbled", cols |-> << >>, rows |-> << >>]

NotesTxt ==
  [ext |-> ".txt", magic |-> "text/plain",
   content_type |-> "text/plain", size |-> 20, parse |-> "ok",
   cols |-> <<Col("line", "object", TRUE)>>,
   rows |-> << <<1>> >>]

JsonCsv ==
  [ext |-> ".csv", magic |-> "application/json",
   content_type |-> "application/json", size |-> 20,
   parse |-> "ok", cols |-> <<Col("a", "object", TRUE)>>, rows |-> << <<1>> >>]

HugeCsv ==
  [ext |-> ".csv", magic |-> "text/csv",
   content_type |-> "text/csv", size |-> MAX_FILE_SIZE + 1,
   parse |-> "ok", cols |-> <<Col("a", "object", TRUE)>>, rows |-> << <<1>> >>]

\* Unstructured text saved as .csv: read_csv makes one column of its lines.
TextCsv ==
  [ext |-> ".csv", magic |-> "text/plain", content_type |-> "text/csv",
   size |-> 60, parse |-> "ok",
   cols |-> <<Col("Dear team", "object", TRUE)>>,
   rows |-> << <<11>> >>]

\* A duplicate row, and a row that differs from it by a missing cell only.
GapsCsv ==
  [ext |-> ".csv", magic |-> "text/csv", content_type |-> "text/csv",
   size |-> 30, parse |-> "ok",
   cols |-> <<Col("price", "numeric", FALSE), Col("qty", "numeric", FALSE)>>,
   rows |-> << <<6, 2>>, <<6, 2>>, <<Missing, 2>> >>]

\* A column whose cells are all missing (read as float64).
BlankCsv ==
  [ext |-> ".csv", magic |-> "text/csv", content_type |-> "text/csv",
   size |-> 20, parse |-> "ok",
   cols |-> <<Col("id", "numeric", FALSE), Col("discount", "numeric", FALSE)>>,
   rows |-> << <<2, Missing>>, <<4, Missing>> >>]

\* One text column, the same sentence in every row.
PraiseCsv ==
  [ext |-> ".csv", magic |-> "text/csv", content_type |-> "text/csv",
   size |-> 80, parse |-> "ok",
   cols |-> <<Col("review", "object", TRUE)>>,
   rows |-> << <<7>>, <<7>>, <<7>> >>]

\* A column with one value in three rows.
GradesCsv ==
  [ext |-> ".csv", magic |-> "text/csv", content_type |-> "text/csv",
   size |-> 90, parse |-> "ok",
   cols |-> <<Col("grade", "object", TRUE), Col("score", "numeric", FALSE)>>,
   rows |-> << <<1, 10>>, <<1, 20>>, <<1, 30>> >>]

\* Eight dated rows, not in order, with a column that has no value at all.
WeekXlsx ==
  [ext |-> ".xlsx",
   magic |-> "application/vnd.openxmlformats-officedocument.spreadsheetml.sheet",
   content_type |-> "application/vnd.openxmlformats-officedocument.spreadsheetml.sheet",
   size |-> 6000, parse |-> "ok",
   cols |-> <<Col("day", "datetime", FALSE), Col("sales", "numeric", FALSE),
              Col("returns", "numeric", FALSE)>>,
   rows |-> << <<3, 30, Missing>>, <<1, 10, Missing>>, <<2, 20, Missing>>,
               <<4, 40, Missing>>, <<5, 50, Missing>>, <<6, 60, Missing>>,
               <<8, 80, Missing>>, <<7, 70, Missing>> >>]

SampleFiles ==
  {DupCsv, SeriesXlsx, MixedXlsx, EmptyCsv, GarbledXls, NotesTxt, JsonCsv, HugeCsv,
   TextCsv, GapsCsv, BlankCsv, PraiseCsv, GradesCsv, WeekXlsx}

VARIABLES
  fs,                 \* temp_uploads: path (the job id names the file) -> None or Some(file)
  user_uploads,       \* table user_uploads, keyed by job_id: None or Some(row)
  file_uploads,       \* table file_uploads, keyed by id: the row the worker updates
  processed_uploads,  \* table processed_uploads: the inserted payloads, in order
  queue,              \* tasks enqueued by upload_data
  start_errors,       \* job ids whose task the worker could not start (TypeError)
  issued,             \* number of job ids upload_data has generated
  inv,                \* invocations of process_uploaded_file
  fault_count,        \* number of I/O and stage errors that have happened so far
  newsletter_subscribers, \* table newsletter_subscribers, keyed by email
  newsletter_response     \* the last response of a newsletter endpoint

pipeline_vars ==
  <<fs, user_uploads, file_uploads, processed_uploads, queue, start_errors,
    issued, inv, fault_count>>

newsletter == <<newsletter_subscribers, newsletter_response>>

vars == <<pipeline_vars, newsletter>>

(***************************************************************************)
(* Sequence helpers.                                                       *)
(***************************************************************************)
RECURSIVE DropDuplicates(_)
\* DataFrame.drop_duplicates: every row equal to an earlier row is dropped,
\* the first occurrence and the order are kept.
DropDuplicates(rows) ==
  IF rows = << >> THEN << >>
  ELSE LET n == Len(rows)
           front == DropDuplicates(SubSeq(rows, 1, n - 1))
       IN IF \E k \in 1..(n - 1) : rows[k] = rows[n]
          THEN front
          ELSE Append(front, rows[n])

RECURSIVE JoinNames(_)
JoinNames(names) ==
  IF names = << >> THEN ""
  ELSE IF Len(names) = 1 THEN "\"" \o names[1] \o "\""
  ELSE "\"" \o names[1] \o "\", " \o JoinNames(Tail(names))

\* json.dumps of a list of strings.
json_dumps(names) == "[" \o JoinNames(names) \o "]"

ColNames(df) == [k \in 1..Len(df.cols) |-> df.cols[k].name]
ColIndex(df, c) == CHOOSE k \in 1..Len(df.cols) : df.cols[k].name = c
ColValues(df, c) == {df.rows[r][ColIndex(df, c)] : r \in 1..Len(df.rows)}

\* DataFrame.empty: no rows or no columns.
DfEmpty(df) == Len(df.rows) = 0 \/ Len(df.cols) = 0

(***************************************************************************)
(* 3. Read File using Pandas: the dataset, or the message of the           *)
(* ValueError the read block raises.                                       *)
(***************************************************************************)
ReadError(file) ==
  IF file.ext \notin {".csv", ".xlsx", ".xls"}
  THEN "Failed to read file content: Unsupported file type determined by extension: "
         \o file.ext
  ELSE IF file.parse # "ok"
  THEN "Failed to read file content: pandas could not parse the file"
  ELSE IF DfEmpty(file)
  THEN "Failed to read file content: File is empty or could not be parsed by pandas."
  ELSE ""

ReadDf(file) == [cols |-> file.cols, rows |-> file.rows]

(***************************************************************************)
(* 4. Data Cleaning (lines 158-177): duplicate rows are dropped, then the  *)
(* missing cells of each column are filled: a numeric column with its      *)
(* median, an object column with its mode, or 'Unknown' when it has none.  *)
(***************************************************************************)
Column(rows, k) == [r \in 1..Len(rows) |-> rows[r][k]]

Present(cells) == SelectSeq(cells, LAMBDA v : v # Missing)

\* Series.median skips the missing cells; it is NaN when none is left.
Median(cells) ==
  LET sorted == SortSeq(Present(cells), LAMBDA a, b : a < b)
      n == Len(sorted)
  IN IF n = 0 THEN Missing
     ELSE IF n % 2 = 1 THEN sorted[(n + 1) \div 2]
     ELSE (sorted[n \div 2] + sorted[n \div 2 + 1]) \div 2

Occurrences(cells, v) == Cardinality({k \in 1..Len(cells) : cells[k] = v})

\* Series.mode()[0]: the most frequent present value, the smallest of them
\* on a tie; 'Unknown' when the column has no present value.
Mode(cells) ==
  LET values == {cells[k] : k \in 1..Len(cells)} \ {Missing}
      top == {v \in values :
                \A w \in values : Occurrences(cells, w) <= Occurrences(cells, v)}
  IN IF values = {} THEN Unknown
     ELSE CHOOSE v \in top : \A w \in top : v <= w

FillValue(col, cells) ==
  IF col.dtype = "numeric" THEN Median(cells)
  ELSE IF col.dtype = "object" THEN Mode(cells)
  ELSE Missing

FillMissing(cols, rows) ==
  [r \in 1..Len(rows) |->
     [k \in 1..Len(cols) |->
        IF rows[r][k] = Missing THEN FillValue(cols[k], Column(rows, k))
        ELSE rows[r][k]]]

CleanDf(df) ==
  [df EXCEPT !.rows = FillMissing(df.cols, DropDuplicates(df.rows))]

(***************************************************************************)
(* 5. Column Statistics: the type of a column.                             *)
(***************************************************************************)
\* Variant: both thresholds are inclusive.
Classify_inclusive(dtype, unique_count, row_count) ==
  IF dtype = "numeric" THEN "numerical"
  ELSE IF dtype = "datetime" THEN "datetime"
  ELSE IF 2 * unique_count <= row_count /\ unique_count <= 1000
       THEN "categorical"
       ELSE "text"

\* Lines 185-211: the branch taken for a column of the given dtype with
\* unique_count distinct values in a frame of row_count rows.
Classify(dtype, unique_count, row_count) ==
  IF dtype = "numeric" THEN "numerical"
  ELSE IF dtype = "datetime" THEN "datetime"
  ELSE IF 2 * unique_count < row_count /\ unique_count < 1000
       THEN "categorical"
       ELSE "text"

ColType(df, c) ==
  Classify(df.cols[ColIndex(df, c)].dtype, Cardinality(ColValues(df, c)),
           Len(df.rows))

(***************************************************************************)
(* routers/newsletter.py.  A row of newsletter_subscribers holds the flag  *)
(* unsubscribed and the preferences; a response names the request it       *)
(* answers and holds the status code, the message of a 200 or the detail   *)
(* of an error, and whether the welcome email was scheduled.               *)
(***************************************************************************)
Emails == {"ann@x.io", "bob@x.io", "cy@x.io"}
Preferences == {"default", "custom"}

NoResponse == [op |-> "", email |-> "", code |-> 0, text |-> "", welcome |-> FALSE]
NewsletterResponse(op, email, code, text, welcome) ==
  [op |-> op, email |-> email, code |-> code, text |-> text, welcome |-> welcome]

\* str(e) of the HTTPException caught at lines 48-49 and 67-68: the status
\* code and the detail, or the empty string, depending on the version of the
\* framework.
StrOfHttpException(code, detail) == {ToString(code) \o ": " \o detail, ""}

(***************************************************************************)
(* The state after construction.                                           *)
(***************************************************************************)
\* A row of file_uploads before any worker has touched it.
QueuedRow ==
  [status |-> "queued", error_reason |-> None, row_count |-> None,
   column_count |-> None, headers |-> None]

\* The locals of process_uploaded_file at entry (lines 107-122), the
\* module-level client of the worker process that runs the invocation
\* (lines 30-40: TRUE when it was created, FALSE when it is None), and the
\* log of the I/O calls the invocation has made so far.
IdleInv ==
  [pc |-> "idle", job_id |-> 0, user_id |-> "", upload_id |-> 0, file_path |-> 0,
   supabase |-> FALSE,
   df |-> None,
   summary_statistics |-> None, extracted_keywords |-> None,
   sentiment_scores |-> None, time_series_analysis |-> None,
   correlation_analysis |-> None, processing_errors |-> None,
   analysis_errors |-> << >>,
   final_status |-> "unset", error_reason |-> "",
   convert_numpy_types |-> FALSE,
   trends_response |-> "",
   returned |-> "",
   log |-> << >>]

Init ==
  /\ fs = [p \in JobIds |-> None]
  /\ user_uploads = [j \in JobIds |-> None]
  /\ file_uploads = [u \in JobIds |-> QueuedRow]
  /\ processed_uploads = << >>
  /\ queue = {}
  /\ start_errors = {}
  /\ issued = 0
  /\ inv = [i \in InvIds |-> IdleInv]
  /\ fault_count = 0
  /\ newsletter_subscribers = [email \in Emails |-> None]
  /\ newsletter_response = NoResponse

(***************************************************************************)
(* Every outcome of an I/O call or of an analysis stage that is an error   *)
(* counts against the budget MaxFaults.                                    *)
(***************************************************************************)
Fault(n) ==
  /\ fault_count + n <= MaxFaults
  /\ fault_count' = fault_count + n

Bit(failed) == IF failed THEN 1 ELSE 0

(***************************************************************************)
(* routers/dashboard.py: validate_file.                                    *)
(***************************************************************************)
validate_file(file) ==
  IF file.size > MAX_FILE_SIZE
  THEN "File size exceeds the limit of 50MB."
  ELSE IF file.ext \notin ALLOWED_EXTENSIONS
  THEN "Invalid file extension."
  ELSE IF file.content_type \notin ALLOWED_CONTENT_TYPES
  THEN "Invalid file content type."
  ELSE ""

\* The keyword arguments upload_data hands to enqueue_job (lines 419-425).
EnqueuedTask(job_id, user, file) ==
  [job_id |-> job_id, user_id |-> user, file_path |-> job_id,
   original_filename |-> "upload" \o file.ext]

ApiResponse(op, code, job_id, status, message, detail) ==
  [op |-> op, code |-> code, job_id |-> job_id, status |-> status,
   message |-> message, detail |-> detail]

(***************************************************************************)
(* routers/dashboard.py: upload_data.  outcome names the first I/O call    *)
(* that fails: the file write, the store insert (and then possibly the     *)
(* removal of the saved file too), or the enqueue.                         *)
(***************************************************************************)
UploadOutcomes ==
  {"ok", "save_error", "insert_error", "insert_and_remove_error", "enqueue_error"}

upload_response(job_id, file, outcome) ==
  IF validate_file(file) # ""
  THEN ApiResponse("upload", 400, 0, "", None, validate_file(file))
  ELSE IF outcome = "save_error"
  THEN ApiResponse("upload", 500, 0, "", None, "Failed to save uploaded file.")
  ELSE IF outcome \in {"insert_error", "insert_and_remove_error"}
  THEN ApiResponse("upload", 500, 0, "", None, "Failed to record upload job.")
  ELSE IF outcome = "enqueue_error"
  THEN ApiResponse("upload", 500, 0, "", None, "Failed to enqueue processing job.")
  ELSE ApiResponse("upload", 200, job_id, "queued", None, "")

\* Variant: the job is enqueued before the record is known to be inserted.
upload_data_enqueue_first(user, file, outcome) ==
  LET job_id == issued + 1
      row == [job_id |-> job_id, user_id |-> user,
              original_filename |-> "upload" \o file.ext,
              status |-> "queued", temp_file_path |-> job_id,
              error_reason |-> None]
      valid == validate_file(file) = ""
      recorded == valid /\ outcome \in {"ok", "enqueue_error"}
      enqueued == valid /\ outcome \in {"ok", "insert_error", "insert_and_remove_error"}
  IN
  /\ issued < Cardinality(JobIds)
  /\ issued = 0 => user = "u1"    \* users are interchangeable: the first uploader is u1
  /\ ~valid => outcome = "ok"
  /\ Fault(IF outcome = "ok" THEN 0
           ELSE IF outcome = "insert_and_remove_error" THEN 2
           ELSE 1)
  /\ issued' = IF valid THEN job_id ELSE issued
  /\ fs' = IF recorded \/ (valid /\ outcome = "insert_and_remove_error")
           THEN [fs EXCEPT ![job_id] = Some(file)]
           ELSE fs
  /\ user_uploads' = IF recorded
                     THEN [user_uploads EXCEPT ![job_id] = Some(row)]
                     ELSE user_uploads
  /\ queue' = IF enqueued
              THEN queue \cup {EnqueuedTask(job_id, user, file)}
              ELSE queue
  /\ UNCHANGED <<file_uploads, processed_uploads, start_errors, inv>>
  /\ UNCHANGED newsletter

upload_data(user, file, outcome) ==
  LET job_id == issued + 1
      row == [job_id |-> job_id, user_id |-> user,
              original_filename |-> "upload" \o file.ext,
              status |-> "queued", temp_file_path |-> job_id,
              error_reason |-> None]
      valid == validate_file(file) = ""
      recorded == valid /\ outcome \in {"ok", "enqueue_error"}
      enqueued == valid /\ outcome = "ok"
  IN
  /\ issued < Cardinality(JobIds)
  /\ issued = 0 => user = "u1"    \* users are interchangeable: the first uploader is u1
  /\ ~valid => outcome = "ok"
  /\ Fault(IF outcome = "ok" THEN 0
           ELSE IF outcome = "insert_and_remove_error" THEN 2
           ELSE 1)
  /\ issued' = IF valid THEN job_id ELSE issued
  /\ fs' = IF recorded \/ (valid /\ outcome = "insert_and_remove_error")
           THEN [fs EXCEPT ![job_id] = Some(file)]
           ELSE fs
  /\ user_uploads' = IF recorded
                     THEN [user_uploads EXCEPT ![job_id] = Some(row)]
                     ELSE user_uploads
  /\ queue' = IF enqueued
              THEN queue \cup {EnqueuedTask(job_id, user, file)}
              ELSE queue
  /\ UNCHANGED <<file_uploads, processed_uploads, start_errors, inv>>
  /\ UNCHANGED newsletter

(***************************************************************************)
(* routers/dashboard.py: get_job_status.  The endpoint changes nothing: it *)
(* is the response to a poll of job_id by user in the current state, db_ok *)
(* being the outcome of the store query.                                   *)
(***************************************************************************)
get_job_status(job_id, user, db_ok) ==
  LET data == user_uploads[job_id] IN
  IF ~db_ok
  THEN ApiResponse("status", 500, 0, "", None,
                   "Error fetching status for job " \o ToString(job_id) \o ".")
  ELSE IF data = None \/ data[1].user_id # user
  THEN ApiResponse("status", 404, 0, "", None,
                   "Job with ID " \o ToString(job_id) \o " not found or access denied.")
  ELSE ApiResponse("status", 200, job_id, data[1].status,
                   IF data[1].status = "failed" /\ data[1].error_reason # None
                   THEN data[1].error_reason ELSE None,
                   "")

(***************************************************************************)
(* worker.py: update_upload_status.  The row after the update: the payload *)
(* always carries status and error_reason, and the extra data if given.    *)
(* Nothing is written when the client is None (line 77) or when the store  *)
(* call raises, which the helper catches (lines 97-98).                    *)
(***************************************************************************)
NoExtra == [row_count |-> None, column_count |-> None, headers |-> None]

UpdatedRow(row, status, error, extra) ==
  [status |-> status,
   error_reason |-> error,
   row_count |-> IF extra.row_count # None THEN extra.row_count ELSE row.row_count,
   column_count |-> IF extra.column_count # None THEN extra.column_count
                    ELSE row.column_count,
   headers |-> IF extra.headers # None THEN extra.headers ELSE row.headers]

\* Variant: the update is not restricted to the row of upload_id.
update_upload_status_unfiltered(client, upload_id, status, error, extra, store_ok) ==
  file_uploads' =
    IF client /\ store_ok
    THEN [u \in JobIds |-> UpdatedRow(file_uploads[u], status, error, extra)]
    ELSE file_uploads

update_upload_status(client, upload_id, status, error, extra, store_ok) ==
  file_uploads' =
    IF client /\ store_ok
    THEN [file_uploads EXCEPT ![upload_id] = UpdatedRow(@, status, error, extra)]
    ELSE file_uploads

\* What the invocation logs about the update.
UpdateEvent(client, status, store_ok) ==
  IF ~client THEN "update_skipped:" \o status
  ELSE IF store_ok THEN "update:" \o status
  ELSE "update_error:" \o status

Logged(rec, event) == [rec EXCEPT !.log = Append(@, event)]

(***************************************************************************)
(* worker.py: the except clauses of process_uploaded_file (lines 459-468). *)
(***************************************************************************)
Raise(rec, error_reason) ==
  [rec EXCEPT !.error_reason = error_reason,
              !.final_status = "failed",
              !.processing_errors =
                 Some(rec.analysis_errors \o <<"FatalError: " \o error_reason>>),
              !.pc = "fail_update"]

RaiseSpecific(rec, message) == Raise(rec, message)

RaiseUnexpected(rec, type_name) ==
  Raise(rec, "Unexpected error during processing: " \o type_name)

(***************************************************************************)
(* The parameters process_uploaded_file requires besides ctx (line 102).   *)
(***************************************************************************)
RequiredParams == {"job_id", "user_id", "upload_id", "file_path", "original_filename"}

FreeSlot(i) ==
  /\ inv[i].pc = "idle"
  /\ \A k \in 1..(i - 1) : inv[k].pc # "idle"

(***************************************************************************)
(* Entry of process_uploaded_file, the client check and the update to      *)
(* "processing" (lines 102-130), for the arguments args, in a worker       *)
(* process whose client is client.                                         *)
(***************************************************************************)
Entered(args, client, store_ok) ==
  LET rec == [IdleInv EXCEPT !.job_id = args.job_id, !.user_id = args.user_id,
                             !.upload_id = args.upload_id,
                             !.file_path = args.file_path,
                             !.supabase = client]
  IN IF ~client
     THEN RaiseSpecific(rec, "Supabase client not initialized. Cannot proceed.")
     ELSE [Logged(rec, UpdateEvent(client, "processing", store_ok))
             EXCEPT !.pc = "check_file"]

\* The worker takes a task off the queue and calls the task function with
\* the task's keyword arguments; a call that lacks a required parameter
\* raises TypeError before the body runs.
Deliver(task, client, store_ok) ==
  /\ task \in queue
  /\ queue' = queue \ {task}
  /\ IF RequiredParams \subseteq DOMAIN task
     THEN /\ \E i \in InvIds :
               /\ FreeSlot(i)
               /\ inv' = [inv EXCEPT ![i] = Entered(task, client, store_ok)]
          /\ update_upload_status(client, task.upload_id, "processing", None,
                                  NoExtra, store_ok)
          /\ Fault(Bit(~store_ok))
          /\ UNCHANGED start_errors
     ELSE /\ start_errors' = start_errors \cup {task.job_id}
          /\ client /\ store_ok
          /\ UNCHANGED <<inv, file_uploads, fault_count>>
  /\ UNCHANGED <<fs, user_uploads, processed_uploads, issued>>
  /\ UNCHANGED newsletter

\* An invocation with all five parameters, for the upload whose id, job id
\* and temporary file are j, a job id upload_data has generated, on behalf
\* of the user who uploaded it.  Slots are used in order.
process_uploaded_file(i, j, user, client, store_ok) ==
  /\ FreeSlot(i)
  /\ j <= issued
  /\ user_uploads[j] # None => user = user_uploads[j][1].user_id
  /\ client \/ store_ok
  /\ Fault(Bit(~store_ok))
  /\ update_upload_status(client, j, "processing", None, NoExtra, store_ok)
  /\ inv' = [inv EXCEPT ![i] =
               Entered([job_id |-> j, user_id |-> user, upload_id |-> j,
                        file_path |-> j], client, store_ok)]
  /\ UNCHANGED <<fs, user_uploads, processed_uploads, queue, start_errors, issued>>
  /\ UNCHANGED newsletter

(***************************************************************************)
(* 2. Check if file exists (lines 132-134).                                *)
(***************************************************************************)
CheckFile(i) ==
  /\ inv[i].pc = "check_file"
  /\ inv' = [inv EXCEPT ![i] =
               IF fs[inv[i].file_path] = None
               THEN RaiseSpecific(@, "Temporary file does not exist: "
                                       \o ToString(inv[i].file_path))
               ELSE [@ EXCEPT !.pc = "read"]]
  /\ UNCHANGED <<fs, user_uploads, file_uploads, processed_uploads, queue,
                 start_errors, issued, fault_count>>
  /\ UNCHANGED newsletter

(***************************************************************************)
(* 4.-8. Cleaning and the analysis stages (lines 158-407), then the        *)
(* error list and the definition of convert_numpy_types (lines 409-430).   *)
(* faults names the stage-scoped errors that happen in this run, trends    *)
(* the outcome of the market_trends query, pipeline whether the worker     *)
(* process has loaded the sentiment model (lines 45-58).                   *)
(***************************************************************************)
StageFaults(df) ==
  {"keywords", "sentiment"}
    \cup {"stats:" \o df.cols[k].name : k \in 1..Len(df.cols)}
    \cup {"timeseries:" \o df.cols[k].name : k \in 1..Len(df.cols)}

TrendOutcomes == {"error", "no_data", "one_day", "aligned", "flat"}

\* The records the market_trends query returns (lines 361-367) for each
\* outcome that is not an error: none, one day of one trend, or two days of
\* it with falling or with constant scores.
TrendRecords(trends) ==
  CASE trends = "one_day" ->
         <<[trend_name |-> "ai", score |-> 5, data_collected_at |-> 1]>>
    [] trends = "aligned" ->
         <<[trend_name |-> "ai", score |-> 2, data_collected_at |-> 2],
           [trend_name |-> "ai", score |-> 4, data_collected_at |-> 1]>>
    [] trends = "flat" ->
         <<[trend_name |-> "ai", score |-> 5, data_collected_at |-> 1],
           [trend_name |-> "ai", score |-> 5, data_collected_at |-> 2]>>
    [] OTHER -> << >>

\* 5. Column Statistics: one entry per column, of type error when the
\* column's statistics raise.
\* Variant: the handler of line 216 leaves the entry of a failing column at
\* its initial value, type unknown, without a detail.
SummaryStats_unknown(df, faults) ==
  [c \in {df.cols[k].name : k \in 1..Len(df.cols)} |->
     IF ("stats:" \o c) \in faults
     THEN [type |-> "unknown", detail |-> ""]
     ELSE [type |-> ColType(df, c), detail |-> ""]]

SummaryStats(df, faults) ==
  [c \in {df.cols[k].name : k \in 1..Len(df.cols)} |->
     IF ("stats:" \o c) \in faults
     THEN [type |-> "error", detail |-> "stat_err"]
     ELSE [type |-> ColType(df, c), detail |-> ""]]

StatsErrors(df, faults) ==
  LET failed == SelectSeq(ColNames(df), LAMBDA c : ("stats:" \o c) \in faults)
  IN [k \in 1..Len(failed) |-> "StatsError (" \o failed[k] \o "): stat_err"]

ColsOfType(df, stats, t) == SelectSeq(ColNames(df), LAMBDA c : stats[c].type = t)

\* 7. Time Series Analysis: one series, or one error entry, per numerical column.
TimeSeries(numerical_cols, faults) ==
  [c \in {numerical_cols[k] : k \in 1..Len(numerical_cols)} |->
     IF ("timeseries:" \o c) \in faults THEN "error" ELSE "rolling_mean_7d"]

(***************************************************************************)
(* Lines 329-338: the frame is sorted by the first datetime column (NaT    *)
(* last), and the series of a numerical column is the mean of each window  *)
(* of 7 consecutive rows, as the pair <<sum, 7>>; a window with a missing  *)
(* value has no mean and dropna() removes it; to_dict() keys the means by  *)
(* the timestamp of the window's last row, a later row replacing an        *)
(* earlier one with the same timestamp.                                    *)
(***************************************************************************)
Window == 7

SortByDate(df, date_col) ==
  LET d == ColIndex(df, date_col)
  IN SortSeq(df.rows, LAMBDA a, b : a[d] # Missing /\ (b[d] = Missing \/ a[d] < b[d]))

RECURSIVE SumSeq(_)
SumSeq(values) == IF values = << >> THEN 0 ELSE Head(values) + SumSeq(Tail(values))

rolling_mean(df, date_col, val_col) ==
  LET sorted == SortByDate(df, date_col)
      dates == Column(sorted, ColIndex(df, date_col))
      values == Column(sorted, ColIndex(df, val_col))
      full == {k \in Window..Len(values) :
                 \A m \in (k - Window + 1)..k : values[m] # Missing}
      last(t) == CHOOSE k \in full : dates[k] = t /\ \A m \in full : dates[m] = t => m <= k
  IN [t \in {dates[k] : k \in full} |->
        <<SumSeq(SubSeq(values, last(t) - Window + 1, last(t))), Window>>]

TimeSeriesErrors(numerical_cols, faults) ==
  LET failed == SelectSeq(numerical_cols, LAMBDA c : ("timeseries:" \o c) \in faults)
  IN [k \in 1..Len(failed) |-> "TimeSeriesError (" \o failed[k] \o "): ts_err"]

\* 6. Sentiment Analysis (lines 275-314).  The pipeline answers one class and
\* score per document; scores are in hundredths, an average is the pair
\* <<sum, count>>.
Classes ==
  {[label |-> "POSITIVE", score |-> 90], [label |-> "NEGATIVE", score |-> 90]}

PipelineResults(documents) == [1..documents -> Classes]

RECURSIVE SumScores(_, _)
SumScores(all_sentiments, label) ==
  IF all_sentiments = << >> THEN 0
  ELSE (IF Head(all_sentiments).label = label THEN Head(all_sentiments).score ELSE 0)
         + SumScores(Tail(all_sentiments), label)

\* max(average, key=average.get): the first key, in insertion order
\* 'positive', 'negative', whose value is the largest.
Sentiment(all_sentiments) ==
  LET positive_score == SumScores(all_sentiments, "POSITIVE")
      negative_score == SumScores(all_sentiments, "NEGATIVE")
      total_count == Len(all_sentiments)
  IN IF total_count > 0
     THEN [error |-> "",
           average |-> Some([positive |-> <<positive_score, total_count>>,
                             negative |-> <<negative_score, total_count>>]),
           overall_label |-> IF positive_score >= negative_score
                             THEN "positive" ELSE "negative"]
     ELSE [error |-> "",
           average |-> Some([positive |-> <<0, 1>>, negative |-> <<0, 1>>]),
           overall_label |-> "NEUTRAL"]

\* The fixed result of a dataset without text columns (line 319).
NeutralSentiment ==
  [error |-> "",
   average |-> Some([positive |-> <<0, 1>>, negative |-> <<0, 1>>]),
   overall_label |-> "NEUTRAL"]

SentimentFailure(message) ==
  [error |-> message, average |-> None, overall_label |-> ""]

(***************************************************************************)
(* 8. Correlation Analysis (lines 349-407).  Days are integers; the daily  *)
(* mean of a day (resample('D').mean()) is the mean of the values of its   *)
(* rows, missing when the day has no value.                                *)
(***************************************************************************)
RECURSIVE SumOver(_, _)
SumOver(f, keys) ==
  IF keys = {} THEN 0
  ELSE LET k == CHOOSE x \in keys : TRUE IN f[k] + SumOver(f, keys \ {k})

DailyMean(days, values, day) ==
  LET at == {k \in 1..Len(days) : days[k] = day /\ values[k] # Missing}
  IN IF at = {} THEN Missing ELSE SumOver(values, at) \div Cardinality(at)

trend_names(records) == {records[k].trend_name : k \in 1..Len(records)}

TrendMean(records, trend, day) ==
  LET of == SelectSeq(records, LAMBDA r : r.trend_name = trend)
  IN DailyMean([k \in 1..Len(of) |-> of[k].data_collected_at],
               [k \in 1..Len(of) |-> of[k].score], day)

\* Line 382: the days on which every user metric and every trend has a value.
combined_days(df, date_col, user_metrics, records) ==
  LET days == Column(df.rows, ColIndex(df, date_col))
  IN {day \in {days[k] : k \in 1..Len(days)} \ {Missing} :
        /\ \A m \in 1..Len(user_metrics) :
             DailyMean(days, Column(df.rows, ColIndex(df, user_metrics[m])), day)
               # Missing
        /\ \A trend \in trend_names(records) : TrendMean(records, trend, day) # Missing}

\* Variant: every pair of the matrix is retained.
Significant_all(x, y, days) == TRUE

\* Line 392: abs(corr_value) > 0.3 for the Pearson coefficient of x and y
\* over days, that is 100 * cov^2 > 9 * var(x) * var(y); the coefficient of
\* a constant series is NaN, and no comparison with NaN is true.
Significant(x, y, days) ==
  LET n == Cardinality(days)
      xy == [d \in days |-> x[d] * y[d]]
      xx == [d \in days |-> x[d] * x[d]]
      yy == [d \in days |-> y[d] * y[d]]
      cov == n * SumOver(xy, days) - SumOver(x, days) * SumOver(y, days)
      var_x == n * SumOver(xx, days) - SumOver(x, days) * SumOver(x, days)
      var_y == n * SumOver(yy, days) - SumOver(y, days) * SumOver(y, days)
  IN var_x > 0 /\ var_y > 0 /\ 100 * cov * cov > 9 * var_x * var_y

\* Lines 369-393: the keys of correlation_analysis, as <<metric, trend>>.
Correlations(df, date_col, user_metrics, records) ==
  LET days == combined_days(df, date_col, user_metrics, records)
      dates == Column(df.rows, ColIndex(df, date_col))
      metric(c) == [d \in days |->
                      DailyMean(dates, Column(df.rows, ColIndex(df, c)), d)]
      trend(t) == [d \in days |-> TrendMean(records, t, d)]
  IN IF records = << >> \/ Cardinality(days) <= 1 THEN {}
     ELSE {pair \in {user_metrics[m] : m \in 1..Len(user_metrics)}
                      \X trend_names(records) :
             Significant(metric(pair[1]), trend(pair[2]), days)}

(***************************************************************************)
(* 6. Keyword Extraction (lines 233-273).  A cell of a text column stands  *)
(* for a sentence; a document is the sentences of a row's text columns     *)
(* joined by a blank (line 231).                                           *)
(***************************************************************************)
Tokens(cell) ==
  CASE cell = 7 -> <<"fast", "delivery">>
    [] cell = 11 -> <<"budget", "the", "meeting">>
    [] OTHER -> <<"item" \o ToString(cell)>>

\* Stands for ENGLISH_STOP_WORDS and CUSTOM_STOP_WORDS (lines 61-71, 236-237).
StopWords == {"the", "and", "service"}

RECURSIVE JoinTokens(_, _, _)
JoinTokens(df, row, text_columns) ==
  IF text_columns = << >> THEN << >>
  ELSE Tokens(row[ColIndex(df, Head(text_columns))])
         \o JoinTokens(df, row, Tail(text_columns))

combined_text_series(df, text_columns) ==
  [r \in 1..Len(df.rows) |-> JoinTokens(df, df.rows[r], text_columns)]

Bigrams(tokens) ==
  [k \in 1..(Len(tokens) - 1) |-> tokens[k] \o " " \o tokens[k + 1]]

\* TfidfVectorizer(stop_words=..., ngram_range=(1, 2)) (lines 239-243): the
\* stop words are dropped, then the words and the pairs of adjacent words
\* are the terms.
TfidfTerms(document) ==
  LET kept == SelectSeq(document, LAMBDA w : w \notin StopWords)
  IN kept \o Bigrams(kept)

\* CountVectorizer(vocabulary=vocabulary) (line 258): no stop words and the
\* default ngram_range (1, 1), so the terms of a document are its words.
CountTerms(document) == document

Occurs(terms, term) == Cardinality({k \in 1..Len(terms) : terms[k] = term})

RECURSIVE TermTotal(_, _, _)
\* The column sum of a document-term matrix (lines 250 and 260).
TermTotal(documents, term, bigrams) ==
  IF documents = << >> THEN 0
  ELSE Occurs(IF bigrams THEN TfidfTerms(Head(documents))
              ELSE CountTerms(Head(documents)), term)
         + TermTotal(Tail(documents), term, bigrams)

vocabulary(documents) ==
  UNION {{TfidfTerms(documents[d])[k] : k \in 1..Len(TfidfTerms(documents[d]))} :
           d \in 1..Len(documents)}

\* Lines 248-264, for a vocabulary of at most 20 terms: the 20 best terms
\* are all of them (their order is not represented), and each is mapped to
\* its column sum in the matrix of the CountVectorizer.
ExtractedKeywords(df, text_columns) ==
  LET documents == combined_text_series(df, text_columns)
      terms == vocabulary(documents)
  IN [overall_top_keywords |-> terms,
      keyword_frequency |-> [t \in terms |-> TermTotal(documents, t, FALSE)]]

Analysis(rec, raw, faults, trends, pipeline, results) ==
  LET df == CleanDf(raw)
      summary_stats == SummaryStats(df, faults)
      errs5 == StatsErrors(df, faults)
      text_columns == ColsOfType(df, summary_stats, "text")
      datetime_cols == ColsOfType(df, summary_stats, "datetime")
      numerical_cols == ColsOfType(df, summary_stats, "numerical")
      \* line 231: ' '.join raises TypeError on a cell that is not a str
      join_raises ==
        \E k \in 1..Len(text_columns) : ~df.cols[ColIndex(df, text_columns[k])].allstr
      kw_fails == "keywords" \in faults
      sent_fails == "sentiment" \in faults
      extracted_keywords ==
        IF text_columns = << >> THEN "empty"
        ELSE IF kw_fails THEN "error" ELSE "computed"
      sentiment_scores ==
        IF text_columns = << >> THEN NeutralSentiment
        ELSE IF ~pipeline THEN SentimentFailure("Pipeline not loaded")
        ELSE IF sent_fails THEN SentimentFailure("sent_err")
        ELSE Sentiment(results)
      errs6 ==
        IF text_columns = << >> THEN << >>
        ELSE (IF kw_fails THEN <<"KeywordError: kw_err">> ELSE << >>)
               \o (IF pipeline /\ sent_fails
                   THEN <<"SentimentError: sent_err">> ELSE << >>)
      series == datetime_cols # << >> /\ numerical_cols # << >>
      errs7 == IF series THEN TimeSeriesErrors(numerical_cols, faults) ELSE << >>
      correlation_analysis ==
        IF ~series THEN "empty"
        ELSE IF trends = "error" THEN "error"
        ELSE IF Correlations(df, datetime_cols[1], numerical_cols,
                             TrendRecords(trends)) = {} THEN "empty"
        ELSE "computed"
      errs8 == IF series /\ trends = "error"
               THEN <<"CorrelationError: corr_err">> ELSE << >>
      analysis_errors == errs5 \o errs6 \o errs7 \o errs8
      profiled == [rec EXCEPT !.df = Some(df),
                              !.summary_statistics = Some(summary_stats),
                              !.analysis_errors = errs5]
  IN
  IF join_raises
  THEN RaiseUnexpected(profiled, "TypeError")
  ELSE [profiled EXCEPT
          !.extracted_keywords = Some(extracted_keywords),
          !.sentiment_scores = Some(sentiment_scores),
          !.time_series_analysis =
             IF series THEN Some(TimeSeries(numerical_cols, faults)) ELSE None,
          !.correlation_analysis = Some(correlation_analysis),
          !.trends_response = IF series THEN trends ELSE "",
          !.analysis_errors = analysis_errors,
          !.processing_errors =
             IF analysis_errors # << >> THEN Some(analysis_errors) ELSE None,
          !.convert_numpy_types = TRUE,
          !.pc = "store"]

(***************************************************************************)
(* 3. Read File using Pandas (lines 136-156), followed in the same step by *)
(* the cleaning and the analysis.  The file may have been removed since    *)
(* the existence check; every error of the read block is raised again as   *)
(* ValueError.                                                             *)
(***************************************************************************)
\* The stage errors of one run: none, or one stage.
FaultChoices(df) == {{}} \cup {{f} : f \in StageFaults(df)}

\* The number of documents handed to the pipeline (lines 229-231, 278): one
\* per row when the frame has a column that can be a text column.
Documents(df) ==
  IF \E k \in 1..Len(df.cols) : df.cols[k].dtype = "object" THEN Len(df.rows) ELSE 0

\* The market_trends query is made only for a frame with a datetime and a
\* numerical column (line 352).
TrendChoices(df) ==
  IF /\ \E k \in 1..Len(df.cols) : df.cols[k].dtype = "datetime"
     /\ \E k \in 1..Len(df.cols) : df.cols[k].dtype = "numeric"
  THEN TrendOutcomes ELSE {"no_data"}

ReadAndAnalyze(i) ==
  /\ inv[i].pc = "read"
  /\ LET file == fs[inv[i].file_path] IN
     IF file = None
     THEN /\ inv' = [inv EXCEPT ![i] =
                RaiseSpecific(@, "Failed to read file content: No such file or directory")]
          /\ UNCHANGED fault_count
     ELSE IF ReadError(file[1]) # ""
     THEN /\ inv' = [inv EXCEPT ![i] =
                       RaiseSpecific(Logged(@, "read"), ReadError(file[1]))]
          /\ UNCHANGED fault_count
     ELSE \E faults \in FaultChoices(ReadDf(file[1])),
             trends \in TrendChoices(ReadDf(file[1])),
             pipeline \in BOOLEAN,
             results \in PipelineResults(Documents(CleanDf(ReadDf(file[1])))) :
            /\ Fault(Cardinality(faults) + Bit(trends = "error"))
            /\ inv' = [inv EXCEPT ![i] =
                         Analysis(Logged(@, "read"), ReadDf(file[1]), faults, trends,
                                  pipeline, results)]
  /\ UNCHANGED <<fs, user_uploads, file_uploads, processed_uploads, queue,
                 start_errors, issued>>
  /\ UNCHANGED newsletter

(***************************************************************************)
(* processed_data_payload (lines 112-121 and the assignments of the        *)
(* stages), with the kinds of the leaf values the stages put into it:      *)
(* describe() and corr() give np.floating, value_counts() np.integer,      *)
(* isoformat() and the error messages str, the sentiment averages float,   *)
(* the counts int, a key that was never assigned None.                     *)
(***************************************************************************)
StatsLeaves(entry) ==
  IF entry.type = "numerical" THEN {"str", "np.floating"}
  ELSE IF entry.type = "datetime" THEN {"str", "null"}
  ELSE IF entry.type = "categorical" THEN {"str", "int", "np.integer"}
  ELSE IF entry.type = "text" THEN {"str", "int"}
  ELSE {"str"}

LeafKinds(rec) ==
  {"str"}
  \cup (IF \/ rec.summary_statistics = None \/ rec.extracted_keywords = None
           \/ rec.sentiment_scores = None \/ rec.time_series_analysis = None
           \/ rec.correlation_analysis = None \/ rec.processing_errors = None
        THEN {"null"} ELSE {})
  \cup (IF rec.summary_statistics = None THEN {}
        ELSE UNION {StatsLeaves(rec.summary_statistics[1][c]) :
                      c \in DOMAIN rec.summary_statistics[1]})
  \cup (IF rec.extracted_keywords = Some("computed") THEN {"str", "int"}
        ELSE IF rec.extracted_keywords = Some("error") THEN {"str"}
        ELSE {})
  \cup (IF rec.sentiment_scores = None THEN {}
        ELSE IF rec.sentiment_scores[1].error # "" THEN {"str"}
        ELSE IF rec.sentiment_scores[1].overall_label = "NEUTRAL" THEN {"str", "int"}
        ELSE {"str", "float"})
  \cup (IF rec.time_series_analysis = None THEN {}
        ELSE {IF rec.time_series_analysis[1][c] = "error" THEN "str"
              ELSE "np.floating" : c \in DOMAIN rec.time_series_analysis[1]})
  \cup (IF rec.correlation_analysis = Some("computed") THEN {"np.floating"}
        ELSE IF rec.correlation_analysis = Some("error") THEN {"str"}
        ELSE {})

\* The kinds of the mapping keys of the payload: field names, column names
\* and terms are str; a rolling-mean series that has entries is keyed by the
\* index of the frame, pd.Timestamp objects (lines 337-338).
KeyKinds(rec) ==
  {"str"}
  \cup (IF rec.time_series_analysis = None THEN {}
        ELSE LET df == rec.df[1]
                 date_col == ColsOfType(df, rec.summary_statistics[1], "datetime")[1]
                 series == rec.time_series_analysis[1]
             IN IF \E c \in DOMAIN series :
                     /\ series[c] # "error"
                     /\ DOMAIN rolling_mean(df, date_col, c) # {}
                THEN {"pd.Timestamp"} ELSE {})

Payload(rec) ==
  [upload_id |-> rec.upload_id, user_id |-> rec.user_id,
   summary_statistics |-> rec.summary_statistics,
   extracted_keywords |-> rec.extracted_keywords,
   sentiment_scores |-> rec.sentiment_scores,
   time_series_analysis |-> rec.time_series_analysis,
   correlation_analysis |-> rec.correlation_analysis,
   processing_errors |-> rec.processing_errors,
   leaves |-> LeafKinds(rec), keys |-> KeyKinds(rec)]

(***************************************************************************)
(* convert_numpy_types (lines 415-428): what it returns for a leaf of each *)
(* kind, and the payload with every leaf converted.  The dict branch       *)
(* (line 424) rebuilds a mapping with the keys it had.                     *)
(***************************************************************************)
ConvertLeaf(kind) ==
  IF kind = "np.integer" THEN "int"
  ELSE IF kind = "np.floating" THEN "float"
  ELSE IF kind = "np.ndarray" THEN "list"
  ELSE IF kind = "pd.Timestamp" THEN "str"
  ELSE kind

\* Variant: the payload is handed to the insert as it is.
convert_numpy_types_skipped(payload) == payload

convert_numpy_types(payload) ==
  [payload EXCEPT !.leaves = {ConvertLeaf(kind) : kind \in @}]

(***************************************************************************)
(* 9. Store Processed Results (lines 432-446).                             *)
(***************************************************************************)
\* Variant: the insert error is swallowed and the run goes on to the final
\* status update.
StoreResults_swallowed(i, store_ok) ==
  /\ inv[i].pc = "store"
  /\ Fault(Bit(~store_ok))
  /\ processed_uploads' = IF store_ok THEN Append(processed_uploads,
                                      convert_numpy_types(Payload(inv[i])))
                          ELSE processed_uploads
  /\ inv' = [inv EXCEPT ![i] =
               [Logged(@, IF store_ok THEN "insert" ELSE "insert_error")
                  EXCEPT !.pc = "complete"]]
  /\ UNCHANGED <<fs, user_uploads, file_uploads, queue, start_errors, issued>>
  /\ UNCHANGED newsletter

StoreResults(i, store_ok) ==
  /\ inv[i].pc = "store"
  /\ Fault(Bit(~store_ok))
  /\ IF store_ok
     THEN /\ processed_uploads' = Append(processed_uploads,
                                      convert_numpy_types(Payload(inv[i])))
          /\ inv' = [inv EXCEPT ![i] = [Logged(@, "insert") EXCEPT !.pc = "complete"]]
     ELSE /\ UNCHANGED processed_uploads
          /\ inv' = [inv EXCEPT ![i] =
                       RaiseUnexpected(Logged(@, "insert_error"), "Exception")]
  /\ UNCHANGED <<fs, user_uploads, file_uploads, queue, start_errors, issued>>
  /\ UNCHANGED newsletter

(***************************************************************************)
(* 10. Final Status Update (lines 448-457).                                *)
(***************************************************************************)
Complete(i, store_ok) ==
  /\ inv[i].pc = "complete"
  /\ Fault(Bit(~store_ok))
  /\ LET df == inv[i].df[1] IN
     update_upload_status(inv[i].supabase, inv[i].upload_id, "completed", None,
       [row_count |-> Some(Len(df.rows)),
        column_count |-> Some(Len(df.cols)),
        headers |-> Some(json_dumps(ColNames(df)))],
       store_ok)
  /\ inv' = [inv EXCEPT ![i] =
               [Logged(@, UpdateEvent(inv[i].supabase, "completed", store_ok))
                  EXCEPT !.final_status = "completed", !.pc = "cleanup"]]
  /\ UNCHANGED <<fs, user_uploads, processed_uploads, queue, start_errors, issued>>
  /\ UNCHANGED newsletter

(***************************************************************************)
(* finally: the status update of a failed run and the decision about the   *)
(* partial results (lines 469-478).  dict.get(...) is truthy for a         *)
(* non-empty mapping.  convert_numpy_types is a local name bound by the    *)
(* def statement of line 415: calling it before that line has run raises   *)
(* UnboundLocalError, which line 485 catches like a store error.           *)
(***************************************************************************)
Truthy(opt) == opt # None /\ DOMAIN opt[1] # {}

WantsPartial(rec) == rec.supabase /\ Truthy(rec.summary_statistics)

AfterFailUpdate(rec) ==
  IF ~WantsPartial(rec) THEN [rec EXCEPT !.pc = "cleanup"]
  ELSE IF ~rec.convert_numpy_types
  THEN [Logged(rec, "partial_unbound") EXCEPT !.pc = "cleanup"]
  ELSE [rec EXCEPT !.pc = "partial"]

\* Variant: the finally block goes to the partial results without the status
\* update of line 473.
FailUpdate_omitted(i, store_ok) ==
  /\ inv[i].pc = "fail_update"
  /\ store_ok
  /\ inv' = [inv EXCEPT ![i] = AfterFailUpdate(@)]
  /\ UNCHANGED <<fs, user_uploads, file_uploads, processed_uploads, queue,
                 start_errors, issued, fault_count>>
  /\ UNCHANGED newsletter

FailUpdate(i, store_ok) ==
  /\ inv[i].pc = "fail_update"
  /\ inv[i].supabase \/ store_ok
  /\ Fault(Bit(~store_ok))
  /\ update_upload_status(inv[i].supabase, inv[i].upload_id, "failed",
                          Some(inv[i].error_reason), NoExtra, store_ok)
  /\ inv' = [inv EXCEPT ![i] =
               AfterFailUpdate(Logged(@, UpdateEvent(inv[i].supabase, "failed",
                                                     store_ok)))]
  /\ UNCHANGED <<fs, user_uploads, processed_uploads, queue, start_errors, issued>>
  /\ UNCHANGED newsletter

(***************************************************************************)
(* finally: the insert of the partial results (lines 479-486).             *)
(***************************************************************************)
\* Variant: without the handler of line 485 the insert error leaves the
\* function: nothing is returned and the cleanup does not run.
PartialInsert_propagated(i, store_ok) ==
  /\ inv[i].pc = "partial"
  /\ Fault(Bit(~store_ok))
  /\ IF store_ok
     THEN /\ processed_uploads' = Append(processed_uploads,
                                      convert_numpy_types(Payload(inv[i])))
          /\ inv' = [inv EXCEPT ![i] =
                       [Logged(@, "partial_insert") EXCEPT !.pc = "cleanup"]]
     ELSE /\ inv' = [inv EXCEPT ![i] =
                       [IdleInv EXCEPT !.pc = "done", !.job_id = inv[i].job_id,
                          !.user_id = inv[i].user_id,
                          !.upload_id = inv[i].upload_id,
                          !.file_path = inv[i].file_path,
                          !.supabase = inv[i].supabase,
                          !.log = Append(inv[i].log, "partial_insert_error")]]
          /\ UNCHANGED processed_uploads
  /\ UNCHANGED <<fs, user_uploads, file_uploads, queue, start_errors, issued>>
  /\ UNCHANGED newsletter

PartialInsert(i, store_ok) ==
  /\ inv[i].pc = "partial"
  /\ Fault(Bit(~store_ok))
  /\ IF store_ok
     THEN /\ processed_uploads' = Append(processed_uploads,
                                      convert_numpy_types(Payload(inv[i])))
          /\ inv' = [inv EXCEPT ![i] =
                       [Logged(@, "partial_insert") EXCEPT !.pc = "cleanup"]]
     ELSE /\ inv' = [inv EXCEPT ![i] =
                       [Logged(@, "partial_insert_error") EXCEPT !.pc = "cleanup"]]
          /\ UNCHANGED processed_uploads
  /\ UNCHANGED <<fs, user_uploads, file_uploads, queue, start_errors, issued>>
  /\ UNCHANGED newsletter

(***************************************************************************)
(* finally: cleanup of the temporary file, and the return (lines 488-503). *)
(***************************************************************************)
\* After the return the locals are gone: what is left of the invocation is
\* its arguments, the dict it returned and the log of its I/O calls.
Returned(rec) ==
  [IdleInv EXCEPT !.pc = "done", !.job_id = rec.job_id, !.user_id = rec.user_id,
                  !.upload_id = rec.upload_id, !.file_path = rec.file_path,
                  !.supabase = rec.supabase,
                  !.returned = rec.final_status, !.log = rec.log]

\* Variant: the file is removed only after a successful run.
Cleanup_on_success(i, remove_ok) ==
  /\ inv[i].pc = "cleanup"
  /\ Fault(Bit(~remove_ok))
  /\ LET path == inv[i].file_path
         kept == inv[i].final_status # "completed"
         event == IF fs[path] = None THEN "cleanup:absent"
                  ELSE IF remove_ok THEN "cleanup:removed"
                  ELSE "cleanup:remove_error"
     IN
     /\ fs[path] = None => remove_ok
     /\ fs' = IF fs[path] # None /\ remove_ok /\ ~kept
              THEN [fs EXCEPT ![path] = None] ELSE fs
     /\ inv' = [inv EXCEPT ![i] = Returned(Logged(@, event))]
  /\ UNCHANGED <<user_uploads, file_uploads, processed_uploads, queue,
                 start_errors, issued>>
  /\ UNCHANGED newsletter

Cleanup(i, remove_ok) ==
  /\ inv[i].pc = "cleanup"
  /\ Fault(Bit(~remove_ok))
  /\ LET path == inv[i].file_path
         event == IF fs[path] = None THEN "cleanup:absent"
                  ELSE IF remove_ok THEN "cleanup:removed"
                  ELSE "cleanup:remove_error"
     IN
     /\ fs[path] = None => remove_ok
     /\ fs' = IF fs[path] # None /\ remove_ok THEN [fs EXCEPT ![path] = None] ELSE fs
     /\ inv' = [inv EXCEPT ![i] = Returned(Logged(@, event))]
  /\ UNCHANGED <<user_uploads, file_uploads, processed_uploads, queue,
                 start_errors, issued>>
  /\ UNCHANGED newsletter

(***************************************************************************)
(* The system: the API layer and the worker invocations.                   *)
(***************************************************************************)
Next ==
  \/ \E user \in Users, file \in SampleFiles, outcome \in UploadOutcomes :
       issued < MaxJobs /\ upload_data(user, file, outcome)
  \/ \E task \in queue, client \in BOOLEAN, store_ok \in BOOLEAN :
       Deliver(task, client, store_ok)
  \/ \E i \in InvIds, j \in JobIds, user \in Users,
        client \in BOOLEAN, store_ok \in BOOLEAN :
       process_uploaded_file(i, j, user, client, store_ok)
  \/ \E i \in InvIds : CheckFile(i)
  \/ \E i \in InvIds : ReadAndAnalyze(i)
  \/ \E i \in InvIds, store_ok \in BOOLEAN : StoreResults(i, store_ok)
  \/ \E i \in InvIds, store_ok \in BOOLEAN : Complete(i, store_ok)
  \/ \E i \in InvIds, store_ok \in BOOLEAN : FailUpdate(i, store_ok)
  \/ \E i \in InvIds, store_ok \in BOOLEAN : PartialInsert(i, store_ok)
  \/ \E i \in InvIds, remove_ok \in BOOLEAN : Cleanup(i, remove_ok)

Spec == Init /\ [][Next]_vars

(***************************************************************************)
(* Two jobs side by side: two uploads of parsable files, one invocation of *)
(* process_uploaded_file per job, in a worker process that has its client. *)
(***************************************************************************)
PairFiles == {SeriesXlsx, MixedXlsx}

NotStarted(j) == \A k \in InvIds : inv[k].pc = "idle" \/ inv[k].upload_id # j

NextPair ==
  \/ \E user \in Users, file \in PairFiles : upload_data(user, file, "ok")
  \/ \E task \in queue : Deliver(task, TRUE, TRUE)
  \/ \E i \in InvIds, j \in JobIds, user \in Users, store_ok \in BOOLEAN :
       NotStarted(j) /\ process_uploaded_file(i, j, user, TRUE, store_ok)
  \/ \E i \in InvIds : CheckFile(i)
  \/ \E i \in InvIds : ReadAndAnalyze(i)
  \/ \E i \in InvIds, store_ok \in BOOLEAN : StoreResults(i, store_ok)
  \/ \E i \in InvIds, store_ok \in BOOLEAN : Complete(i, store_ok)
  \/ \E i \in InvIds, store_ok \in BOOLEAN : FailUpdate(i, store_ok)
  \/ \E i \in InvIds, store_ok \in BOOLEAN : PartialInsert(i, store_ok)
  \/ \E i \in InvIds, remove_ok \in BOOLEAN : Cleanup(i, remove_ok)

SpecPair == Init /\ [][NextPair]_vars

(***************************************************************************)
(* routers/newsletter.py: subscribe_to_newsletter (lines 16-49).  Both     *)
(* endpoints wrap their body in try / except Exception, and HTTPException  *)
(* is an Exception: the 400 and the 404 raised in the body are caught and  *)
(* answered as 500 with str(e) as detail.                                  *)
(***************************************************************************)
subscribe_to_newsletter(email, preferences, db_ok) ==
  LET existing == newsletter_subscribers[email] IN
  /\ IF ~db_ok
     THEN /\ newsletter_response' = NewsletterResponse("subscribe", email, 500, "db_err", FALSE)
          /\ UNCHANGED newsletter_subscribers
     ELSE IF existing # None /\ existing[1].unsubscribed
     THEN /\ newsletter_subscribers' =
               [newsletter_subscribers EXCEPT ![email] =
                  Some([unsubscribed |-> FALSE, preferences |-> preferences])]
          /\ newsletter_response' =
               NewsletterResponse("subscribe", email, 200, "Subscription reactivated successfully", FALSE)
     ELSE IF existing # None
     THEN /\ \E text \in StrOfHttpException(400, "Email already subscribed") :
               newsletter_response' = NewsletterResponse("subscribe", email, 500, text, FALSE)
          /\ UNCHANGED newsletter_subscribers
     ELSE /\ newsletter_subscribers' =
               [newsletter_subscribers EXCEPT ![email] =
                  Some([unsubscribed |-> FALSE, preferences |-> preferences])]
          /\ newsletter_response' =
               NewsletterResponse("subscribe", email, 200, "Subscribed successfully", TRUE)
  /\ UNCHANGED pipeline_vars

\* unsubscribe_from_newsletter (lines 51-68): the update answers with the
\* rows it changed, none when the email has no row.
unsubscribe_from_newsletter(email, db_ok) ==
  LET existing == newsletter_subscribers[email] IN
  /\ IF ~db_ok
     THEN /\ newsletter_response' = NewsletterResponse("unsubscribe", email, 500, "db_err", FALSE)
          /\ UNCHANGED newsletter_subscribers
     ELSE IF existing = None
     THEN /\ \E text \in StrOfHttpException(404, "Subscription not found") :
               newsletter_response' = NewsletterResponse("unsubscribe", email, 500, text, FALSE)
          /\ UNCHANGED newsletter_subscribers
     ELSE /\ newsletter_subscribers' =
               [newsletter_subscribers EXCEPT ![email] =
                  Some([existing[1] EXCEPT !.unsubscribed = TRUE])]
          /\ newsletter_response' =
               NewsletterResponse("unsubscribe", email, 200, "Unsubscribed successfully", FALSE)
  /\ UNCHANGED pipeline_vars

NextNewsletter ==
  \/ \E email \in Emails, preferences \in Preferences, db_ok \in BOOLEAN :
       subscribe_to_newsletter(email, preferences, db_ok)
  \/ \E email \in Emails, db_ok \in BOOLEAN :
       unsubscribe_from_newsletter(email, db_ok)

SpecNewsletter == Init /\ [][NextNewsletter]_vars

(***************************************************************************)
(* Vocabulary of the properties.                                           *)
(***************************************************************************)
Terminal(status) == status \in {"completed", "failed"}

HasEvent(rec, event) == \E k \in DOMAIN rec.log : rec.log[k] = event

LastEvent(rec) == IF rec.log = << >> THEN "" ELSE rec.log[Len(rec.log)]

Count(rec, events) == Cardinality({k \in DOMAIN rec.log : rec.log[k] \in events})

RowSet(rows) == {rows[k] : k \in DOMAIN rows}

StatusWrites == {"update:processing", "update:completed", "update:failed"}
FailedUpdates == {"update:failed", "update_error:failed", "update_skipped:failed"}
InsertEvents == {"insert", "partial_insert"}
PartialAttempts == {"partial_insert", "partial_insert_error", "partial_unbound"}
StoreErrors == {"update_error:processing", "update_error:completed",
                "update_error:failed", "insert_error", "partial_insert_error"}
CleanupEvents == {"cleanup:absent", "cleanup:removed", "cleanup:remove_error"}

ResultsOf(upload_id) ==
  {k \in DOMAIN processed_uploads : processed_uploads[k].upload_id = upload_id}

(***************************************************************************)
(* C1.  The status of an upload record never goes from a terminal state    *)
(* (completed or failed) back to processing, whatever invocations follow.  *)
(***************************************************************************)
C1_NoRegressionToProcessing ==
  [][\A u \in JobIds :
       Terminal(file_uploads[u].status) => file_uploads'[u].status # "processing"]_vars

(***************************************************************************)
(* C2.  Once the status of an upload record is completed or failed, no     *)
(* later step changes the status or the error reason.                      *)
(***************************************************************************)
C2_OneTerminalTransition ==
  [][\A u \in JobIds :
       Terminal(file_uploads[u].status) =>
         /\ file_uploads'[u].status = file_uploads[u].status
         /\ file_uploads'[u].error_reason = file_uploads[u].error_reason]_vars

(***************************************************************************)
(* C3.  Once an invocation has written a status for a job that upload_data *)
(* created, a poll of that job by its owner answers with the status of the *)
(* record the worker writes, and with its error reason when it is failed.  *)
(***************************************************************************)
C3_PollReadsWorkerRecord ==
  \A i \in InvIds :
    (/\ inv[i].pc # "idle"
     /\ user_uploads[inv[i].job_id] # None
     /\ \E e \in StatusWrites : HasEvent(inv[i], e))
    => LET owner == user_uploads[inv[i].job_id][1].user_id
           answer == get_job_status(inv[i].job_id, owner, TRUE)
           written == file_uploads[inv[i].upload_id]
       IN /\ answer.code = 200
          /\ answer.status = written.status
          /\ written.status = "failed" => answer.message = written.error_reason

(***************************************************************************)
(* C4.  Every task upload_data enqueues carries the five parameters the    *)
(* worker entry point requires, so no delivered task fails to start.       *)
(***************************************************************************)
C4_EnqueuedTaskComplete ==
  /\ \A task \in queue : RequiredParams \subseteq DOMAIN task
  /\ start_errors = {}

(***************************************************************************)
(* C5.  A run that ends completed has inserted exactly one result record,  *)
(* and has done so before it set the status to completed; the completed    *)
(* update carries the row count and column count of the cleaned dataset    *)
(* (one row per distinct row of the file) and its header list; hence a     *)
(* record with status completed always has a result record for its upload  *)
(* id.                                                                     *)
(***************************************************************************)
C5_CompletedAfterInsert ==
  /\ \A u \in JobIds :
       file_uploads[u].status = "completed" => ResultsOf(u) # {}
  /\ \A i \in InvIds :
       HasEvent(inv[i], "update:completed") =>
         /\ Count(inv[i], InsertEvents) = 1
         /\ \E k, m \in DOMAIN inv[i].log :
              k < m /\ inv[i].log[k] = "insert" /\ inv[i].log[m] = "update:completed"
  /\ \A i \in InvIds :
       (inv[i].pc = "cleanup" /\ LastEvent(inv[i]) = "update:completed") =>
         LET df == inv[i].df[1]
             row == file_uploads[inv[i].upload_id]
             file == fs[inv[i].file_path]
         IN /\ row.row_count = Some(Len(df.rows))
            /\ row.column_count = Some(Len(df.cols))
            /\ row.headers = Some(json_dumps(ColNames(df)))
            /\ file # None =>
                 /\ Len(df.rows) = Cardinality(RowSet(file[1].rows))
                 /\ Len(df.cols) = Len(file[1].cols)

C5_Witness ==
  \E i \in InvIds :
    /\ inv[i].pc = "cleanup"
    /\ LastEvent(inv[i]) = "update:completed"
    /\ fs[inv[i].file_path] # None
    /\ Len(fs[inv[i].file_path][1].rows) > Len(inv[i].df[1].rows)
    /\ file_uploads[inv[i].upload_id].status = "completed"

(***************************************************************************)
(* C6 as stated.  On the failure path with partial results computed, the   *)
(* insert of the partial results is attempted before the status update to  *)
(* failed.                                                                 *)
(***************************************************************************)
C6_PartialBeforeFailed ==
  \A i \in InvIds :
    (inv[i].pc \notin {"idle", "done"} /\ Truthy(inv[i].summary_statistics)) =>
      \A k \in DOMAIN inv[i].log :
        inv[i].log[k] \in FailedUpdates =>
          \E m \in 1..(k - 1) : inv[i].log[m] \in PartialAttempts

(***************************************************************************)
(* C6 amended.  On the failure path the status update to failed is issued  *)
(* first: every attempt to insert partial results comes after it.          *)
(***************************************************************************)
C6_FailedBeforePartial ==
  \A i \in InvIds :
    \A k \in DOMAIN inv[i].log :
      inv[i].log[k] \in PartialAttempts =>
        \E m \in 1..(k - 1) : inv[i].log[m] \in FailedUpdates

C6_Witness ==
  \E i \in InvIds :
    /\ HasEvent(inv[i], "update:failed")
    /\ LastEvent(inv[i]) = "partial_insert"
    /\ ResultsOf(inv[i].upload_id) # {}

(***************************************************************************)
(* C7.  When a fatal error follows the computation of the summary          *)
(* statistics and precedes a later stage, and no store call fails, the     *)
(* run inserts a record holding the populated fields, null for the stages  *)
(* not attempted, and the fatal error in processing_errors.                *)
(***************************************************************************)
C7_PartialRecordInserted ==
  \A i \in InvIds :
    (/\ inv[i].pc = "cleanup"
     /\ inv[i].final_status = "failed"
     /\ WantsPartial(inv[i])
     /\ inv[i].extracted_keywords = None
     /\ Count(inv[i], StoreErrors) = 0)
    => \E k \in ResultsOf(inv[i].upload_id) : processed_uploads[k] =
           convert_numpy_types(Payload(inv[i]))

(***************************************************************************)
(* C8.  A failing insert of the partial results changes nothing in the     *)
(* status record, which keeps failed and its error reason; the invocation  *)
(* goes on to the cleanup of the temporary file and returns failed.        *)
(***************************************************************************)
C8_PartialInsertFailure ==
  [][\A i \in InvIds :
       /\ (~HasEvent(inv[i], "partial_insert_error")
           /\ HasEvent(inv'[i], "partial_insert_error")) =>
            /\ file_uploads' = file_uploads
            /\ inv'[i].pc = "cleanup"
            /\ inv'[i].final_status = "failed"
       /\ (HasEvent(inv'[i], "partial_insert_error") /\ inv'[i].pc = "done") =>
            /\ inv'[i].returned = "failed"
            /\ LastEvent(inv'[i]) \in CleanupEvents]_vars

C8_Witness ==
  \E i \in InvIds :
    /\ inv[i].pc = "done"
    /\ HasEvent(inv[i], "partial_insert_error")
    /\ inv[i].returned = "failed"
    /\ file_uploads[inv[i].upload_id].status = "failed"
    /\ fs[inv[i].file_path] = None

(***************************************************************************)
(* C9.  When the store write of the status processing fails, the job is    *)
(* aborted: the file is not read, no analysis stage runs, and the          *)
(* invocation ends failed.                                                 *)
(***************************************************************************)
C9_ProcessingWriteFailureAborts ==
  \A i \in InvIds :
    HasEvent(inv[i], "update_error:processing") =>
      /\ ~HasEvent(inv[i], "read")
      /\ inv[i].df = None
      /\ inv[i].summary_statistics = None
      /\ inv[i].final_status # "completed"
      /\ inv[i].pc = "done" => inv[i].returned = "failed"

(***************************************************************************)
(* C10.  Every invocation ends with the check and the removal of its       *)
(* temporary file: once it has ended, the last thing it did was the        *)
(* cleanup, and the file does not exist unless the removal failed.         *)
(***************************************************************************)
C10_CleanupOnEveryExit ==
  \A i \in InvIds :
    inv[i].pc = "done" =>
      /\ LastEvent(inv[i]) \in CleanupEvents
      /\ LastEvent(inv[i]) # "cleanup:remove_error" => fs[inv[i].file_path] = None

C10_Witness ==
  \E i \in InvIds :
    /\ inv[i].pc = "done"
    /\ inv[i].returned = "failed"
    /\ HasEvent(inv[i], "update_error:failed")
    /\ LastEvent(inv[i]) = "cleanup:removed"
    /\ fs[inv[i].file_path] = None

(***************************************************************************)
(* C11.  A fatal error (client unavailable, temporary file missing,        *)
(* unsupported file type, empty or unparseable dataset) short-circuits the *)
(* run: nothing is cleaned or analysed, no result record is inserted, and  *)
(* the status record ends failed with the reason of the error.  Stated for *)
(* a run that is the only invocation so far and meets no store error.      *)
(***************************************************************************)
FatalReasons(rec) ==
  ({"Supabase client not initialized. Cannot proceed.",
    "Temporary file does not exist: " \o ToString(rec.file_path),
    "Failed to read file content: No such file or directory"}
   \cup {ReadError(file) : file \in SampleFiles}) \ {""}

C11_FatalErrorShortCircuits ==
  \A i \in InvIds :
    (/\ inv[i].pc = "cleanup"
     /\ \A j \in InvIds \ {i} : inv[j].pc = "idle"
     /\ inv[i].error_reason \in FatalReasons(inv[i])
     /\ Count(inv[i], StoreErrors) = 0)
    => /\ inv[i].final_status = "failed"
       /\ inv[i].df = None
       /\ inv[i].summary_statistics = None
       /\ Count(inv[i], InsertEvents \cup PartialAttempts) = 0
       /\ file_uploads[inv[i].upload_id].status = "failed"
       /\ file_uploads[inv[i].upload_id].error_reason = Some(inv[i].error_reason)

(***************************************************************************)
(* C12.  Once the file is parsed and cleaned, a failing analysis stage     *)
(* does not change the outcome: unless the store insert fails, the run     *)
(* never takes the failure path, and it reaches the cleanup completed with *)
(* its result record inserted.                                             *)
(***************************************************************************)
C12_StageErrorsKeepOutcome ==
  \A i \in InvIds :
    (inv[i].df # None /\ ~HasEvent(inv[i], "insert_error")) =>
      /\ inv[i].final_status # "failed"
      /\ inv[i].pc = "cleanup" =>
           (inv[i].final_status = "completed" /\ HasEvent(inv[i], "insert"))

(***************************************************************************)
(* C13.  Every stage error of a run is an entry of the processing_errors   *)
(* list of the record it persists: a column whose statistics failed, a     *)
(* failed keyword extraction, a failed or unavailable sentiment pipeline,  *)
(* a column whose time series failed, a failed correlation.  So the list   *)
(* is null only when no stage error occurred.                              *)
(***************************************************************************)
ErrorsOf(record) ==
  IF record.processing_errors = None THEN {}
  ELSE {record.processing_errors[1][k] : k \in DOMAIN record.processing_errors[1]}

StageErrorsOf(record) ==
  (IF record.summary_statistics = None THEN {}
   ELSE {"StatsError (" \o c \o "): " \o record.summary_statistics[1][c].detail :
           c \in {d \in DOMAIN record.summary_statistics[1] :
                    record.summary_statistics[1][d].type = "error"}})
  \cup (IF record.extracted_keywords = Some("error")
        THEN {"KeywordError: kw_err"} ELSE {})
  \cup (IF record.sentiment_scores # None /\ record.sentiment_scores[1].error # ""
        THEN {"SentimentError: " \o record.sentiment_scores[1].error} ELSE {})
  \cup (IF record.time_series_analysis = None THEN {}
        ELSE {"TimeSeriesError (" \o c \o "): ts_err" :
                c \in {d \in DOMAIN record.time_series_analysis[1] :
                         record.time_series_analysis[1][d] = "error"}})
  \cup (IF record.correlation_analysis = Some("error")
        THEN {"CorrelationError: corr_err"} ELSE {})

C13_StageErrorsRecorded ==
  \A k \in DOMAIN processed_uploads :
    StageErrorsOf(processed_uploads[k]) \subseteq ErrorsOf(processed_uploads[k])

(***************************************************************************)
(* C14.  A file with an allowed extension whose bytes are detected as a    *)
(* type outside the allowed set is rejected by the read step: the run      *)
(* takes the failure path and no cleaning or analysis is done on it.       *)
(***************************************************************************)
C14_MismatchedTypeRejected ==
  \A i \in InvIds :
    (/\ inv[i].pc \notin {"idle", "done"}
     /\ HasEvent(inv[i], "read")
     /\ fs[inv[i].file_path] # None
     /\ fs[inv[i].file_path][1].ext \in ALLOWED_EXTENSIONS
     /\ fs[inv[i].file_path][1].magic \notin ALLOWED_CONTENT_TYPES)
    => /\ inv[i].final_status = "failed"
       /\ inv[i].df = None
       /\ inv[i].summary_statistics = None

(***************************************************************************)
(* C15.  When the dataset read from the file has a duplicate row, the      *)
(* cleaned dataset has strictly fewer rows and no two equal rows.          *)
(***************************************************************************)
HasDuplicates(rows) == Cardinality(RowSet(rows)) < Len(rows)

C15_CleanedHasNoDuplicates ==
  \A i \in InvIds :
    (/\ inv[i].df # None
     /\ fs[inv[i].file_path] # None
     /\ HasDuplicates(fs[inv[i].file_path][1].rows))
    => /\ Len(inv[i].df[1].rows) < Len(fs[inv[i].file_path][1].rows)
       /\ ~HasDuplicates(inv[i].df[1].rows)

(***************************************************************************)
(* C16.  After the cleaning no cell of a numeric column is missing, also   *)
(* when every cell of the column was missing, and the cells that were      *)
(* present keep their value.                                               *)
(***************************************************************************)
C16_NumericCellsFilled ==
  \A i \in InvIds :
    (inv[i].df # None /\ fs[inv[i].file_path] # None) =>
      LET df == inv[i].df[1]
          deduplicated == DropDuplicates(fs[inv[i].file_path][1].rows)
      IN \A k \in 1..Len(df.cols) :
           df.cols[k].dtype = "numeric" =>
             \A r \in 1..Len(df.rows) :
               /\ df.rows[r][k] # Missing
               /\ deduplicated[r][k] # Missing => df.rows[r][k] = deduplicated[r][k]

(***************************************************************************)
(* C17.  The profile has exactly one entry per column of the cleaned       *)
(* dataset.  A column whose statistics raised has an entry of type error   *)
(* with a detail, and an entry in the error list; every other column has   *)
(* the entry of its type; and the run goes on to the text stage.           *)
(***************************************************************************)
C17_OneProfileEntryPerColumn ==
  \A i \in InvIds :
    inv[i].summary_statistics # None =>
      LET df == inv[i].df[1]
          stats == inv[i].summary_statistics[1]
          errors == {inv[i].analysis_errors[k] : k \in DOMAIN inv[i].analysis_errors}
      IN /\ DOMAIN stats = {df.cols[k].name : k \in 1..Len(df.cols)}
         /\ Cardinality(DOMAIN stats) = Len(df.cols)
         /\ \A c \in DOMAIN stats :
              /\ ("StatsError (" \o c \o "): stat_err") \in errors
                   <=> stats[c].type = "error"
              /\ stats[c].type = "error" => stats[c].detail # ""
              /\ stats[c].type # "error" => stats[c].type = ColType(df, c)
         /\ \/ inv[i].extracted_keywords # None
            \/ inv[i].error_reason = "Unexpected error during processing: TypeError"

C17_Witness ==
  \E i \in InvIds :
    /\ inv[i].pc = "store"
    /\ inv[i].summary_statistics # None
    /\ \E c, d \in DOMAIN inv[i].summary_statistics[1] :
         /\ inv[i].summary_statistics[1][c].type = "error"
         /\ inv[i].summary_statistics[1][d].type = "numerical"

(***************************************************************************)
(* C18.  In a persisted record whose sentiment stage succeeded, the        *)
(* overall label is "POSITIVE" when the average positive score is the      *)
(* larger one, "NEGATIVE" when the average negative score is the larger    *)
(* one, and "NEUTRAL" when there are no documents.                         *)
(***************************************************************************)
C18_OverallLabel ==
  \A k \in DOMAIN processed_uploads :
    LET scores == processed_uploads[k].sentiment_scores IN
    (scores # None /\ scores[1].error = "") =>
      LET positive == scores[1].average[1].positive
          negative == scores[1].average[1].negative
      IN /\ scores[1].overall_label \in {"POSITIVE", "NEGATIVE", "NEUTRAL"}
         /\ positive[1] * negative[2] > negative[1] * positive[2]
              => scores[1].overall_label = "POSITIVE"
         /\ negative[1] * positive[2] > positive[1] * negative[2]
              => scores[1].overall_label = "NEGATIVE"
         /\ (positive[1] = 0 /\ negative[1] = 0)
              => scores[1].overall_label = "NEUTRAL"

(***************************************************************************)
(* C19.  Every record written to processed_uploads, by the full insert or  *)
(* by the partial insert, went through convert_numpy_types: each of its    *)
(* leaf values is a str, an int, a float, a bool or null, never a numpy    *)
(* number, a numpy array or a pandas timestamp.                            *)
(***************************************************************************)
PlainKinds == {"str", "int", "float", "bool", "null"}

C19_PersistedLeavesPlain ==
  \A k \in 1..Len(processed_uploads) : processed_uploads[k].leaves \subseteq PlainKinds

\* A stored record whose payload held numpy floats before the conversion.
C19_Witness ==
  \E i \in InvIds :
    /\ inv[i].pc = "cleanup"
    /\ "np.floating" \in LeafKinds(inv[i])
    /\ \E k \in ResultsOf(inv[i].upload_id) :
         processed_uploads[k] = convert_numpy_types(Payload(inv[i]))

(***************************************************************************)
(* C20 as stated.  At most one record is ever inserted into                *)
(* processed_uploads for a job.  The code violates it when the task of a   *)
(* job is executed more than once: each execution inserts a record.        *)
(***************************************************************************)
C20_OneResultPerJob ==
  \A u \in JobIds : Cardinality(ResultsOf(u)) <= 1

(***************************************************************************)
(* C21 as stated.  A job in the queue has a record in user_uploads, and an *)
(* upload whose record insert failed leaves no saved file and enqueues no  *)
(* job.  The removal of the saved file can itself fail (dashboard.py lines *)
(* 408-412), and then the file stays.                                      *)
(***************************************************************************)
QueuedJobsRecorded ==
  \A task \in queue :
    /\ user_uploads[task.job_id] # None
    /\ user_uploads[task.job_id][1].status = "queued"

\* A step of upload_data that issued a job id and inserted no record.
UploadNotRecorded ==
  /\ issued' = issued + 1
  /\ user_uploads'[issued'] = None

Contains(text, phrase) ==
  \E k \in 1..(Len(text) - Len(phrase) + 1) :
    SubSeq(text, k, k + Len(phrase) - 1) = phrase

NotOwned(job_id, user) ==
  \/ user_uploads[job_id] = None
  \/ user_uploads[job_id][1].user_id # user

C22_ForeignJobNotFound ==
  \A job_id \in JobIds, user \in Users :
    NotOwned(job_id, user) =>
      LET response == get_job_status(job_id, user, TRUE)
      IN /\ response.code = 404
         /\ Contains(response.detail, "Job not found")
         /\ response.status = ""
         /\ response.message = None

(***************************************************************************)
(* C23.  Jobs do not interfere (specification SpecPair: two jobs, one      *)
(* invocation each).  A step of an invocation leaves the temporary file    *)
(* and the status record of every other job alone, and the only record it  *)
(* can add to processed_uploads carries its own upload_id; at the end of   *)
(* an invocation the status record and the result of its job are those     *)
(* its own run produced, whatever the other job did meanwhile.             *)
(***************************************************************************)
OthersUntouched(i) ==
  LET own == inv'[i].upload_id IN
  /\ \A u \in JobIds \ {own} : file_uploads'[u] = file_uploads[u]
  /\ \A path \in JobIds \ {inv'[i].file_path} : fs'[path] = fs[path]
  /\ \/ processed_uploads' = processed_uploads
     \/ /\ Len(processed_uploads') = Len(processed_uploads) + 1
        /\ SubSeq(processed_uploads', 1, Len(processed_uploads)) = processed_uploads
        /\ processed_uploads'[Len(processed_uploads')].upload_id = own

OwnOutcome(i) ==
  LET own == inv[i].upload_id IN
  /\ HasEvent(inv[i], "update:failed") =>
       /\ file_uploads[own].status = "failed"
       /\ file_uploads[own].error_reason = Some(inv[i].error_reason)
  /\ HasEvent(inv[i], "update:completed") =>
       /\ file_uploads[own].status = "completed"
       /\ file_uploads[own].row_count = Some(Len(inv[i].df[1].rows))
  /\ IF Count(inv[i], InsertEvents) = 0
     THEN ResultsOf(own) = {}
     ELSE \E k \in DOMAIN processed_uploads :
            /\ ResultsOf(own) = {k}
            /\ processed_uploads[k] = convert_numpy_types(Payload(inv[i]))

C23_JobsDoNotInterfere ==
  /\ [][\A i \in InvIds : inv'[i] # inv[i] => OthersUntouched(i)]_vars
  /\ [](\A i \in InvIds : inv[i].pc = "cleanup" => OwnOutcome(i))

\* Two jobs have run side by side, one to completed and one to failed.
C23_Witness ==
  \E i, k \in InvIds :
    /\ inv[i].pc = "cleanup" /\ inv[k].pc = "cleanup"
    /\ inv[i].upload_id # inv[k].upload_id
    /\ file_uploads[inv[i].upload_id].status = "completed"
    /\ file_uploads[inv[k].upload_id].status = "failed"
    /\ ResultsOf(inv[i].upload_id) # {} /\ ResultsOf(inv[k].upload_id) # {}

(***************************************************************************)
(* C24 as stated.  Once an invocation has ended, the status record of its  *)
(* upload is in the terminal state the invocation returned, never queued   *)
(* or processing (stated for an invocation that is the only one so far).   *)
(* The code leaves the record as it was when the last status write raises  *)
(* in the store or when the worker has no client.                          *)
(***************************************************************************)
C24_EndsInReturnedStatus ==
  \A i \in InvIds :
    (/\ inv[i].pc = "done"
     /\ \A j \in InvIds \ {i} : inv[j].pc = "idle")
    => /\ inv[i].returned \in {"completed", "failed"}
       /\ file_uploads[inv[i].upload_id].status = inv[i].returned

(***************************************************************************)
(* C25.  The type of a column is a function of the cleaned column: numeric *)
(* dtype gives numerical, else datetime dtype gives datetime, else the     *)
(* column is categorical exactly when unique_count / row_count < 0.5 and   *)
(* unique_count < 1000, and text otherwise, in particular at a ratio of    *)
(* exactly 0.5 and at exactly 1000 unique values.  Every type in a profile *)
(* is one of numerical, categorical, text, datetime, error.                *)
(***************************************************************************)
ColumnTypes == {"numerical", "categorical", "text", "datetime", "error"}

\* Sizes around the two thresholds.
UniqueCounts == {1, 2, 3, 999, 1000, 1001}
RowCounts == {1, 2, 3, 4, 5, 1998, 1999, 2000, 2001, 2002, 2003, 5000}

ExpectedType(dtype, unique_count, row_count) ==
  CASE dtype = "numeric" -> "numerical"
    [] dtype = "datetime" -> "datetime"
    [] OTHER -> IF unique_count >= 1000 \/ 2 * unique_count >= row_count
                THEN "text" ELSE "categorical"

ProfileAsExpected(rec) ==
  LET df == rec.df[1]
      stats == rec.summary_statistics[1]
  IN \A k \in 1..Len(df.cols) :
       LET c == df.cols[k].name
           unique_count == Cardinality({df.rows[r][k] : r \in 1..Len(df.rows)})
       IN /\ stats[c].type \in ColumnTypes
          /\ stats[c].type # "error" =>
               stats[c].type = ExpectedType(df.cols[k].dtype, unique_count,
                                            Len(df.rows))

TextColumns(rec) ==
  SelectSeq(ColNames(rec.df[1]),
            LAMBDA c : rec.summary_statistics[1][c].type = "text")

C26_KeywordFrequencies ==
  \A i \in InvIds :
    inv[i].extracted_keywords = Some("computed") =>
      LET documents == combined_text_series(inv[i].df[1], TextColumns(inv[i]))
          keywords == ExtractedKeywords(inv[i].df[1], TextColumns(inv[i]))
      IN /\ Cardinality(keywords.overall_top_keywords) <= 20
         /\ DOMAIN keywords.keyword_frequency = keywords.overall_top_keywords
         /\ \A t \in keywords.overall_top_keywords :
              keywords.keyword_frequency[t] = TermTotal(documents, t, TRUE)

(***************************************************************************)
(* C27 as stated.  The rolling-mean series of a numerical column over n    *)
(* rows with distinct timestamps is empty when n < 7 and has n - 6 entries *)
(* otherwise, the entry of the k-th row in date order being the mean of    *)
(* the values of rows k - 6 .. k; without a datetime column or without a   *)
(* numerical column there is no time-series output.  The code produces an  *)
(* empty series for a column whose cells are all missing, which the        *)
(* cleaning leaves unfilled.                                               *)
(***************************************************************************)
SeriesAsClaimed(df, date_col, val_col) ==
  LET n == Len(df.rows)
      sorted == SortByDate(df, date_col)
      dates == Column(sorted, ColIndex(df, date_col))
      values == Column(sorted, ColIndex(df, val_col))
      series == rolling_mean(df, date_col, val_col)
  IN IF n < Window THEN DOMAIN series = {}
     ELSE /\ Cardinality(DOMAIN series) = n - (Window - 1)
          /\ \A k \in Window..n :
               /\ dates[k] \in DOMAIN series
               /\ series[dates[k]] =
                    <<SumSeq(SubSeq(values, k - Window + 1, k)), Window>>

C27_RollingMean ==
  \A i \in InvIds :
    inv[i].correlation_analysis # None =>
      LET df == inv[i].df[1]
          stats == inv[i].summary_statistics[1]
          datetime_cols == ColsOfType(df, stats, "datetime")
          numerical_cols == ColsOfType(df, stats, "numerical")
      IN IF datetime_cols = << >> \/ numerical_cols = << >>
         THEN inv[i].time_series_analysis = None
         ELSE /\ inv[i].time_series_analysis # None
              /\ \A k \in 1..Len(numerical_cols) :
                   inv[i].time_series_analysis[1][numerical_cols[k]] # "error"
                     => SeriesAsClaimed(df, datetime_cols[1], numerical_cols[k])

(***************************************************************************)
(* C28 as stated.  In every payload handed to an insert into               *)
(* processed_uploads, the keys of the time-series mappings, like all       *)
(* mapping keys, are strings.  The code keys a rolling-mean series by      *)
(* pd.Timestamp objects and the conversion does not touch keys.            *)
(***************************************************************************)
InsertAttempts == {"insert", "insert_error", "partial_insert", "partial_insert_error"}

C28_SeriesKeysAreStrings ==
  /\ \A k \in 1..Len(processed_uploads) : processed_uploads[k].keys \subseteq {"str"}
  /\ \A i \in InvIds :
       (inv[i].pc = "cleanup" /\ Count(inv[i], InsertAttempts) > 0)
         => convert_numpy_types(Payload(inv[i])).keys \subseteq {"str"}

(***************************************************************************)
(* C29.  When the market_trends query answers and the user data and the    *)
(* trend data have fewer than 2 common days with all values present,       *)
(* correlation_analysis is the empty map and no correlation error is       *)
(* recorded; with 2 or more, exactly the pairs of a metric and a trend     *)
(* whose Pearson coefficient is above 0.3 in absolute value are retained.  *)
(***************************************************************************)
\* |r| > 0.3, from the deviations of x and y from their means (times n).
AboveThreshold(x, y, days) ==
  LET n == Cardinality(days)
      dx == [d \in days |-> n * x[d] - SumOver(x, days)]
      dy == [d \in days |-> n * y[d] - SumOver(y, days)]
      sxy == SumOver([d \in days |-> dx[d] * dy[d]], days)
      sxx == SumOver([d \in days |-> dx[d] * dx[d]], days)
      syy == SumOver([d \in days |-> dy[d] * dy[d]], days)
  IN sxx # 0 /\ syy # 0 /\ 100 * sxy * sxy > 9 * sxx * syy

RetainedAsClaimed(rec) ==
  LET df == rec.df[1]
      stats == rec.summary_statistics[1]
      date_col == ColsOfType(df, stats, "datetime")[1]
      user_metrics == ColsOfType(df, stats, "numerical")
      records == TrendRecords(rec.trends_response)
      days == combined_days(df, date_col, user_metrics, records)
      dates == Column(df.rows, ColIndex(df, date_col))
      claimed ==
        IF Cardinality(days) < 2 THEN {}
        ELSE {pair \in {user_metrics[m] : m \in 1..Len(user_metrics)}
                         \X trend_names(records) :
                AboveThreshold(
                  [d \in days |->
                     DailyMean(dates, Column(df.rows, ColIndex(df, pair[1])), d)],
                  [d \in days |-> TrendMean(records, pair[2], d)], days)}
  IN /\ Correlations(df, date_col, user_metrics, records) = claimed
     /\ rec.correlation_analysis = Some(IF claimed = {} THEN "empty" ELSE "computed")
     /\ \A k \in DOMAIN rec.analysis_errors :
          rec.analysis_errors[k] # "CorrelationError: corr_err"

Active(row) == row # None /\ ~row[1].unsubscribed

Answers(op, email) ==
  /\ newsletter_response'.op = op
  /\ newsletter_response'.email = email
  /\ newsletter_response'.text # "db_err"

C30_SubscriptionErrors ==
  [][\A email \in Emails :
       /\ (Answers("subscribe", email) /\ Active(newsletter_subscribers[email]))
          => /\ newsletter_response'.code = 400
             /\ newsletter_response'.text = "Email already subscribed"
             /\ newsletter_subscribers' = newsletter_subscribers
       /\ (Answers("unsubscribe", email) /\ newsletter_subscribers[email] = None)
          => /\ newsletter_response'.code = 404
             /\ newsletter_response'.text = "Subscription not found"
       /\ (/\ Answers("subscribe", email)
           /\ newsletter_subscribers[email] # None
           /\ ~Active(newsletter_subscribers[email]))
          => /\ Active(newsletter_subscribers'[email])
             /\ \A other \in Emails \ {email} :
                  newsletter_subscribers'[other] = newsletter_subscribers[other]]_vars
====
